---- MODULE Spec2Model ----
(***************************************************************************)
(* memspy: monitor_command launches a child process, samples its process   *)
(* tree on a timer, drains the child's stdout/stderr through two           *)
(* StreamReader threads and appends one record per tick to the output file *)
(* and to sys.stdout.                                                      *)
(*                                                                         *)
(* Text is modelled as a sequence of tokens.  A token is a record; the     *)
(* newline character is the token NL.  A Python str that the program       *)
(* writes is a sequence of tokens, a file is the concatenation of the      *)
(* strings written to it, and its lines are what lies between the NLs.     *)
(* A line read from a pipe is a sequence of characters.                    *)
(***************************************************************************)
EXTENDS Integers, Sequences, FiniteSets, TLC

VARIABLES
    pc,                 \* position of the main thread in monitor_command
    exit_status,        \* exit status of the program, NoStatus while it runs
    file_exists,        \* whether output_file exists
    file_content,       \* tokens of output_file
    sys_stdout,         \* tokens written to the terminal (sys.stdout)
    sys_stderr,         \* tokens written to sys.stderr
    child,              \* "none", "running", "exited": the Popen child
    pipe,               \* per stream: raw lines written and not yet read
    pipes_held,         \* a descendant still holds the write ends after the child's exit
    written,            \* per stream: every raw line the child wrote (history)
    worker,             \* per stream: state of the StreamReader thread
    q,                  \* per stream: the StreamReader's queue.Queue
    process_tree_info,  \* <<>> for None, <<pt>> for a ProcessTreeInfo
    log_lines,          \* the list of strings of the current tick
    batch,              \* the list read_lines is building
    ticks,              \* number of records written so far
    drains,             \* per stream: what each read_lines call returned (history)
    startup,            \* history of the startup steps and their outcomes
    failure,            \* which failure ended the run, "none" otherwise
    probe               \* what the last call of get_process_tree_info met (history)

vars == <<pc, exit_status, file_exists, file_content, sys_stdout, sys_stderr,
          child, pipe, pipes_held, written, worker, q, process_tree_info,
          log_lines, batch, ticks, drains, startup, failure, probe>>

----------------------------------------------------------------------------
(* Bounds *)

MaxLines == 2       \* lines the child writes, over both streams
MaxTicks == 2       \* records the loop writes while the child runs

----------------------------------------------------------------------------
(* Values *)

Streams == {"stdout", "stderr"}

NoStatus == -1

RootPid == 1
MemVals == {4096}

\* what the child can print on a line: text, then "\n" or "\r\n"; a child prints
\* the same line every time
RawLines == { <<"a", " ", "\n">>, <<"a", "\r", "\n">> }

NL == [kind |-> "NL"]
Stale == [kind |-> "stale"]

\* the content of an output file left by an earlier run
StaleContent == <<Stale, NL>>

RECURSIVE Concat(_)
Concat(ss) == IF ss = <<>> THEN <<>> ELSE Head(ss) \o Concat(Tail(ss))

----------------------------------------------------------------------------
(* ProcessTreeInfoPrinter.produce_txt *)

HeaderLine(ts, pi) == [kind |-> "header", ts |-> ts, pid |-> pi.pid, mem |-> pi.mem]

ChildLine(ts, c) == [kind |-> "child", ts |-> ts, pid |-> c.pid, mem |-> c.mem, cmd |-> c.cmd]

RECURSIVE ChildrenTxt(_, _)
ChildrenTxt(ts, cs) ==
    IF cs = <<>> THEN <<>>
    ELSE <<ChildLine(ts, Head(cs)), NL>> \o ChildrenTxt(ts, Tail(cs))

produce_txt(ts, pt) == <<HeaderLine(ts, pt.pi), NL>> \o ChildrenTxt(ts, pt.children)

----------------------------------------------------------------------------
(* get_process_tree_info *)

ProcessInfo(pid, mem, cmd) == [pid |-> pid, mem |-> mem, cmd |-> cmd]

\* what process.children(recursive=True) can list: no descendant, or three
Enumerations == {<<>>, <<2, 3, 4>>}

\* the descendants that exit between their enumeration and their inspection:
\* descendant 3 is short-lived
Vanishings == {{3}}

\* the read that fails for a descendant that vanished: psutil raises in
\* child.memory_info() or, that read done, in child.cmdline()
Reads == {"memory_info", "cmdline"}

\* what the process table answers during one call of get_process_tree_info:
\* how the root lookup ends, how the enumeration ends, the descendants listed,
\* those that vanish before their inspection and the read that then fails
NoProbe == [root |-> "none", enumRes |-> "none", children |-> <<>>, vanished |-> {}, at |-> "none"]

Probes ==
    {[NoProbe EXCEPT !.root = r] : r \in {"NoSuchProcess", "Exception"}}
    \cup {[NoProbe EXCEPT !.root = "ok", !.enumRes = "Exception"]}
    \cup {[root |-> "ok", enumRes |-> "ok", children |-> c,
            vanished |-> {x \in v : \E i \in 1..Len(c) : c[i] = x},
            at |-> IF \E i \in 1..Len(c) : c[i] \in v THEN a ELSE "none"] :
              c \in Enumerations, v \in Vanishings, a \in Reads}

\* an inspection that fills in an empty command line when cmdline() fails
InspectChildDefault(c, mem, failing) ==
    CASE failing = "none" -> <<ProcessInfo(c, mem, <<"cmd", c>>)>>
      [] failing = "cmdline" -> <<ProcessInfo(c, mem, <<>>)>>
      [] OTHER -> <<>>

\* lines 71-77: the ProcessInfo is built once both reads have returned
InspectChild(c, mem, failing) ==
    IF failing = "none" THEN <<ProcessInfo(c, mem, <<"cmd", c>>)>> ELSE <<>>

\* the loop of lines 69-79: a descendant whose inspection raises is skipped
RECURSIVE InspectChildren(_, _, _, _)
InspectChildren(children, vanished, at, mem) ==
    IF children = <<>> THEN <<>>
    ELSE LET c == Head(children)
         IN  InspectChild(c, mem, IF c \in vanished THEN at ELSE "none")
             \o InspectChildren(Tail(children), vanished, at, mem)

\* a lookup that takes every failure for the end of the process
RootOutcomeSwallow(rootRes) ==
    IF rootRes = "ok" THEN "value" ELSE "None"

\* a lookup that reports every failure as an error
RootOutcomeRaises(rootRes) ==
    IF rootRes = "ok" THEN "value" ELSE "raise"

\* a lookup that carries on after any failure but NoSuchProcess
RootOutcomeGoesOn(rootRes) ==
    IF rootRes = "NoSuchProcess" THEN "None" ELSE "value"

\* how the root lookup of lines 48-54 ends
RootOutcome(rootRes) ==
    CASE rootRes = "NoSuchProcess" -> "None"
      [] rootRes = "Exception" -> "raise"
      [] OTHER -> "value"

\* a collector that gives up when the descendants cannot be listed
get_process_tree_info_strict(pid, mem, p) ==
    CASE RootOutcome(p.root) = "raise" -> [raises |-> TRUE, value |-> <<>>]
      [] RootOutcome(p.root) = "None" -> [raises |-> FALSE, value |-> <<>>]
      [] OTHER ->
           [raises |-> FALSE,
            value |-> IF p.enumRes = "ok"
                      THEN <<[pi |-> ProcessInfo(pid, mem, <<>>),
                              children |-> InspectChildren(p.children, p.vanished, p.at, mem)]>>
                      ELSE <<>>]

\* the call: it raises, or it returns None (value <<>>) or a ProcessTreeInfo
get_process_tree_info(pid, mem, p) ==
    CASE RootOutcome(p.root) = "raise" -> [raises |-> TRUE, value |-> <<>>]
      [] RootOutcome(p.root) = "None" -> [raises |-> FALSE, value |-> <<>>]
      [] OTHER ->
           [raises |-> FALSE,
            value |-> <<[pi |-> ProcessInfo(pid, mem, <<>>),
                         children |-> IF p.enumRes = "ok"
                                      THEN InspectChildren(p.children, p.vanished, p.at, mem)
                                      ELSE <<>>]>>]

----------------------------------------------------------------------------
(* StreamReader *)

\* universal_newlines=True: "\r\n" and "\r" reach readline as "\n"
RECURSIVE Translate(_)
Translate(s) ==
    IF s = <<>> THEN <<>>
    ELSE IF Head(s) = "\r"
         THEN <<"\n">> \o Translate(IF Len(s) > 1 /\ s[2] = "\n" THEN Tail(Tail(s)) ELSE Tail(s))
         ELSE <<Head(s)>> \o Translate(Tail(s))

Whitespace == {" ", "\t", "\n", "\r"}

\* str.rstrip()
RECURSIVE rstrip(_)
rstrip(s) ==
    IF s # <<>> /\ s[Len(s)] \in Whitespace THEN rstrip(SubSeq(s, 1, Len(s) - 1)) ELSE s

\* a queue that hands out the newest line first
PutLifo(queue, item) == <<item>> \o queue

\* q.put(line)
Put(queue, item) == Append(queue, item)

\* a get that leaves the line in the queue
GetKeeps(queue) == queue

\* what get_nowait leaves in the queue
AfterGet(queue) == Tail(queue)

\* f"{self.__line_prefix}> {line}" for a line the generator yielded
TaggedLine(prefix, item) ==
    [kind |-> "tagged", prefix |-> prefix, text |-> rstrip(item.line), n |-> item.n]

\* number of lines the worker of stream s has put so far
NPut(s) == Len(written[s]) - Len(pipe[s])

----------------------------------------------------------------------------
(* try_remove_file *)

RemoveResults == {"removed", "FileNotFoundError", "PermissionError", "Exception"}

\* a removal that reports success whatever happened
try_remove_file_always(res) == TRUE

\* the value try_remove_file returns
try_remove_file(res) == res \in {"removed", "FileNotFoundError"}

RemoveMessage(res) ==
    IF res \in {"PermissionError", "Exception"}
    THEN <<[kind |-> "error", what |-> "unable to rewrite", why |-> res], NL>>
    ELSE <<>>

\* a startup that leaves the old file in place
KeptAfterRemove(res, exists) == exists

\* os.remove: the file is gone exactly when the call succeeds
ExistsAfterRemove(res, exists) == IF res = "removed" THEN FALSE ELSE exists

----------------------------------------------------------------------------
(* monitor_command *)

Alive == pc \notin {"returned", "exited"}

\* a loop that also waits for the reader threads
WaitsForReaders == child # "exited" \/ \E s \in Streams : worker[s] = "running"

\* process.poll() is None
LoopCondition == child # "exited"

\* print(...) then sys.exit(1)
Fail(what, msg) ==
    /\ sys_stdout' = sys_stdout \o msg
    /\ exit_status' = 1
    /\ failure' = what
    /\ pc' = "exited"

Init ==
    /\ pc = "remove"
    /\ exit_status = NoStatus
    /\ file_exists \in BOOLEAN
    /\ file_content = IF file_exists THEN StaleContent ELSE <<>>
    /\ sys_stdout = <<>>
    /\ sys_stderr = <<>>
    /\ child = "none"
    /\ pipe = [s \in Streams |-> <<>>]
    /\ pipes_held = FALSE
    /\ written = [s \in Streams |-> <<>>]
    /\ worker = [s \in Streams |-> "unstarted"]
    /\ q = [s \in Streams |-> <<>>]
    /\ process_tree_info = <<>>
    /\ log_lines = <<>>
    /\ batch = <<>>
    /\ ticks = 0
    /\ drains = [s \in Streams |-> <<>>]
    /\ startup = <<>>
    /\ failure = "none"
    /\ probe = NoProbe

\* line 130
RemoveFile ==
    /\ pc = "remove"
    /\ \E res \in RemoveResults :
        /\ res = "removed" => file_exists
        /\ res = "FileNotFoundError" => ~file_exists
        /\ file_exists' = ExistsAfterRemove(res, file_exists)
        /\ file_content' = IF file_exists' THEN file_content ELSE <<>>
        /\ startup' = Append(startup, [step |-> "remove", res |-> res])
        /\ IF try_remove_file(res)
           THEN /\ pc' = "popen"
                /\ sys_stdout' = sys_stdout \o RemoveMessage(res)
                /\ UNCHANGED <<exit_status, failure>>
           ELSE Fail("remove", RemoveMessage(res))
    /\ UNCHANGED <<probe, sys_stderr, child, pipe, pipes_held, written, worker, q,
                   process_tree_info, log_lines, batch, ticks, drains>>

\* lines 132-136
Popen ==
    /\ pc = "popen"
    /\ \E res \in {"ok", "Exception"} :
        /\ startup' = Append(startup, [step |-> "popen", res |-> res])
        /\ IF res = "ok"
           THEN /\ child' = "running"
                /\ pc' = "readers"
                /\ UNCHANGED <<sys_stdout, exit_status, failure>>
           ELSE /\ Fail("popen", <<[kind |-> "error", what |-> "Cannot start process", why |-> res], NL>>)
                /\ UNCHANGED child
    /\ UNCHANGED <<probe, pipes_held, file_exists, file_content, sys_stderr, pipe, written, worker, q,
                   process_tree_info, log_lines, batch, ticks, drains>>

\* lines 138-143: the thread of a reader starts in its constructor
Readers ==
    /\ pc = "readers"
    /\ \E res \in {"ok", "stdout", "stderr"} :
        /\ startup' = Append(startup, [step |-> "readers", res |-> res])
        /\ worker' = [s \in Streams |->
                        IF res = "ok" \/ (res = "stderr" /\ s = "stdout")
                        THEN "running" ELSE worker[s]]
        /\ IF res = "ok"
           THEN /\ pc' = "poll"
                /\ UNCHANGED <<sys_stdout, exit_status, failure>>
           ELSE Fail("readers", <<[kind |-> "error", what |-> "Cannot setup reader", why |-> res], NL>>)
    /\ UNCHANGED <<probe, file_exists, file_content, sys_stderr, child, pipe, pipes_held, written, q,
                   process_tree_info, log_lines, batch, ticks, drains>>

\* line 145; falling off the end of monitor_command and main ends the program with status 0
Poll ==
    /\ pc = "poll"
    /\ IF LoopCondition
       THEN /\ ticks < MaxTicks
            /\ pc' = "collect"
            /\ UNCHANGED exit_status
       ELSE /\ pc' = "returned"
            /\ exit_status' = 0
    /\ UNCHANGED <<probe, file_exists, file_content, sys_stdout, sys_stderr, child, pipe, pipes_held,
                   written, worker, q, process_tree_info, log_lines, batch, ticks, drains,
                   startup, failure>>

\* lines 146-155; failure records a lookup that raised something other than
\* NoSuchProcess, whatever the program then does with it
Collect ==
    /\ pc = "collect"
    /\ \E p \in Probes, mem \in MemVals :
        LET r == get_process_tree_info(RootPid, mem, p)
        IN  /\ p.root = "NoSuchProcess" => child = "exited"
            /\ probe' = p
            /\ failure' = IF p.root = "Exception" THEN "collect" ELSE failure
            /\ IF r.raises
               THEN /\ sys_stdout' = sys_stdout \o <<[kind |-> "error", what |-> "Cannot get process info", why |-> p.root], NL>>
                    /\ exit_status' = 1
                    /\ pc' = "exited"
                    /\ UNCHANGED <<process_tree_info, log_lines>>
               ELSE /\ process_tree_info' = r.value
                    /\ IF r.value = <<>>
                       THEN /\ pc' = "returned"
                            /\ exit_status' = 0
                            /\ UNCHANGED log_lines
                       ELSE /\ log_lines' = <<produce_txt(ticks + 1, r.value[1])>>
                            /\ pc' = "read_stdout"
                            /\ UNCHANGED exit_status
                    /\ UNCHANGED sys_stdout
    /\ batch' = <<>>
    /\ UNCHANGED <<file_exists, file_content, sys_stderr, child, pipe, pipes_held, written,
                   worker, q, ticks, drains, startup>>

\* a loop that reads stderr first
ReadingSwapped(s) == pc = IF s = "stdout" THEN "read_stderr" ELSE "read_stdout"

\* lines 157-158: read_lines of stdout_reader, then of stderr_reader
Reading(s) == pc = IF s = "stdout" THEN "read_stdout" ELSE "read_stderr"

\* a get() that waits for a line as long as the thread may put one
GetWaits(s) == q[s] = <<>> /\ worker[s] # "running"

\* lines 98-101: get_nowait on an empty queue raises queue.Empty at once
RaisesEmpty(s) == q[s] = <<>>

\* lines 96-106: one get_nowait that finds a line
ReadLine(s) ==
    /\ Reading(s)
    /\ q[s] # <<>>
    /\ batch' = Append(batch, <<TaggedLine(s, Head(q[s]))>>)
    /\ q' = [q EXCEPT ![s] = AfterGet(q[s])]
    /\ UNCHANGED <<probe, pc, exit_status, file_exists, file_content, sys_stdout, sys_stderr, child,
                   pipe, pipes_held, written, worker, process_tree_info, log_lines, ticks,
                   drains, startup, failure>>

\* lines 100-101, 111: queue.Empty ends read_lines; lines 157-160
ReadDone(s) ==
    /\ Reading(s)
    /\ RaisesEmpty(s)
    /\ drains' = [drains EXCEPT ![s] = Append(@, batch)]
    /\ batch' = <<>>
    /\ IF s = "stdout"
       THEN /\ log_lines' = log_lines \o batch
            /\ pc' = "read_stderr"
       ELSE /\ log_lines' = [i \in 1..(Len(log_lines) + Len(batch)) |-> (log_lines \o batch)[i] \o <<NL>>]
            /\ pc' = "write_file"
    /\ UNCHANGED <<probe, exit_status, file_exists, file_content, sys_stdout, sys_stderr, child,
                   pipe, pipes_held, written, worker, q, process_tree_info, ticks,
                   startup, failure>>

\* a write that opens the file with mode 'w'
FileAfterRewrite(content, lines) == Concat(lines)

\* lines 162-164: open(output_file, 'a'), writelines
FileAfterWrite(content, lines) == content \o Concat(lines)

\* lines 162-164: open(output_file, 'a') creates the file when it is missing
WriteFile ==
    /\ pc = "write_file"
    /\ file_exists' = TRUE
    /\ file_content' = FileAfterWrite(file_content, log_lines)
    /\ pc' = "write_stdout"
    /\ UNCHANGED <<probe, exit_status, sys_stdout, sys_stderr, child, pipe, pipes_held, written,
                   worker, q, process_tree_info, log_lines, batch, ticks, drains,
                   startup, failure>>

\* a terminal that is shown the snapshot only
StdoutAfterSnapshot(content, lines) == content \o Head(lines)

\* lines 166-167: sys.stdout.writelines
StdoutAfterWrite(content, lines) == content \o Concat(lines)

\* lines 166-169: the write, then the sleep that ends the tick
WriteStdout ==
    /\ pc = "write_stdout"
    /\ sys_stdout' = StdoutAfterWrite(sys_stdout, log_lines)
    /\ ticks' = ticks + 1
    /\ pc' = "poll"
    /\ UNCHANGED <<probe, exit_status, file_exists, file_content, sys_stderr, child, pipe, pipes_held,
                   written, worker, q, process_tree_info, log_lines, batch, drains,
                   startup, failure>>

----------------------------------------------------------------------------
(* the child process *)

TotalWritten == Len(written["stdout"]) + Len(written["stderr"])

ChildWrite(s) ==
    /\ Alive
    /\ child = "running"
    /\ TotalWritten < MaxLines
    /\ \E raw \in RawLines :
        /\ \A t \in Streams : \A i \in 1..Len(written[t]) : written[t][i] = raw
        /\ pipe' = [pipe EXCEPT ![s] = Append(@, raw)]
        /\ written' = [written EXCEPT ![s] = Append(@, raw)]
    /\ UNCHANGED <<probe, pc, exit_status, file_exists, file_content, sys_stdout, sys_stderr, child,
                   pipes_held, worker, q, process_tree_info, log_lines, batch, ticks, drains,
                   startup, failure>>

\* the child's own write ends close; a descendant that inherited them may live on
ChildExit ==
    /\ Alive
    /\ child = "running"
    /\ child' = "exited"
    /\ pipes_held' \in BOOLEAN
    /\ UNCHANGED <<probe, pc, exit_status, file_exists, file_content, sys_stdout, sys_stderr, pipe,
                   written, worker, q, process_tree_info, log_lines, batch, ticks, drains,
                   startup, failure>>

\* the last descendant holding the pipes exits
PipeClose ==
    /\ Alive
    /\ child = "exited"
    /\ pipes_held
    /\ pipes_held' = FALSE
    /\ UNCHANGED <<probe, pc, exit_status, file_exists, file_content, sys_stdout, sys_stderr, child,
                   pipe, written, worker, q, process_tree_info, log_lines, batch, ticks, drains,
                   startup, failure>>

----------------------------------------------------------------------------
(* StreamReader.__worker: a daemon thread, it ends with the program *)

\* lines 93-94: readline returns a line, q.put(line)
WorkerRead(s) ==
    /\ Alive
    /\ worker[s] = "running"
    /\ pipe[s] # <<>>
    /\ q' = [q EXCEPT ![s] = Put(@, [line |-> Translate(Head(pipe[s])), n |-> NPut(s) + 1])]
    /\ pipe' = [pipe EXCEPT ![s] = Tail(@)]
    /\ UNCHANGED <<probe, pc, exit_status, file_exists, file_content, sys_stdout, sys_stderr, child,
                   pipes_held, written, worker, process_tree_info, log_lines, batch, ticks,
                   drains, startup, failure>>

\* line 93: readline returns '' at end of input
WorkerEof(s) ==
    /\ Alive
    /\ worker[s] = "running"
    /\ pipe[s] = <<>>
    /\ child = "exited" /\ ~pipes_held
    /\ worker' = [worker EXCEPT ![s] = "eof"]
    /\ UNCHANGED <<probe, pc, exit_status, file_exists, file_content, sys_stdout, sys_stderr, child,
                   pipe, pipes_held, written, q, process_tree_info, log_lines, batch, ticks,
                   drains, startup, failure>>

\* an uncaught exception in a thread that takes the program down
ThreadDeathExits(p) == "exited"

\* lines 87-88, 90-94: an uncaught exception ends the thread it is raised in;
\* the main thread stays where it is
AfterThreadDeath(p) == p

\* lines 92-93: flush or readline raises; the thread dies and the interpreter
\* reports the uncaught exception on sys.stderr
WorkerError(s) ==
    /\ Alive
    /\ worker[s] = "running"
    /\ worker' = [worker EXCEPT ![s] = "error"]
    /\ pc' = AfterThreadDeath(pc)
    /\ sys_stderr' = sys_stderr \o <<[kind |-> "traceback", thread |-> s], NL>>
    /\ UNCHANGED <<probe, exit_status, file_exists, file_content, sys_stdout, child,
                   pipe, pipes_held, written, q, process_tree_info, log_lines, batch, ticks,
                   drains, startup, failure>>

----------------------------------------------------------------------------

MainStep ==
    \/ RemoveFile \/ Popen \/ Readers \/ Poll \/ Collect
    \/ \E s \in Streams : ReadLine(s)
    \/ \E s \in Streams : ReadDone(s)
    \/ WriteFile \/ WriteStdout

Next ==
    \/ RemoveFile
    \/ Popen
    \/ Readers
    \/ Poll
    \/ Collect
    \/ \E s \in Streams : ReadLine(s)
    \/ \E s \in Streams : ReadDone(s)
    \/ WriteFile
    \/ WriteStdout
    \/ \E s \in Streams : ChildWrite(s)
    \/ ChildExit
    \/ PipeClose
    \/ \E s \in Streams : WorkerRead(s)
    \/ \E s \in Streams : WorkerEof(s)

Spec == Init /\ [][Next]_vars

\* the runs in which a read of a reader thread may fail
NextErr ==
    \/ Next
    \/ \E s \in Streams : WorkerError(s)

ErrSpec == Init /\ [][NextErr]_vars

\* the main thread is scheduled by the interpreter: it always takes its next
\* step (no step of it waits, except for the bounded sleep); nothing is assumed
\* of the reader threads and of the child
FairSpec == Spec /\ WF_vars(MainStep)

----------------------------------------------------------------------------
(* Vocabulary of the properties *)

\* the outcomes of a startup step with which the step has done its work
GoodResults == {"removed", "FileNotFoundError", "ok"}

StartupFailed(i) == startup[i].res \notin GoodResults

ReachedRunning == Len(startup) = 3 /\ \A i \in 1..3 : ~StartupFailed(i)

Kinds(tokens) == {tokens[i].kind : i \in 1..Len(tokens)}

\* the lines of a text: what lies between its newlines
RECURSIVE SplitLines(_)
SplitLines(t) ==
    IF t = <<>> THEN <<>>
    ELSE IF \E i \in 1..Len(t) : t[i] = NL
         THEN LET i == CHOOSE k \in 1..Len(t) : t[k] = NL /\ \A m \in 1..(k - 1) : t[m] # NL
              IN  <<SubSeq(t, 1, i - 1)>> \o SplitLines(SubSeq(t, i + 1, Len(t)))
         ELSE <<t>>

\* the written text of a raw line, without its "\n" or "\r\n"
StripTerminator(raw) ==
    LET n == Len(raw)
    IN  IF n >= 2 /\ raw[n - 1] = "\r" /\ raw[n] = "\n" THEN SubSeq(raw, 1, n - 2)
        ELSE IF n >= 1 /\ raw[n] \in {"\n", "\r"} THEN SubSeq(raw, 1, n - 1)
        ELSE raw

\* the tagged line that the n-th line written to stream s should become
ExpectedLine(s, n) ==
    [kind |-> "tagged", prefix |-> s, text |-> StripTerminator(written[s][n]), n |-> n]

\* every line the read_lines calls on stream s have returned, in order
Returned(s) == Concat(drains[s])

\* the same, with what a running read_lines has collected
Taken(s) == Returned(s) \o (IF Reading(s) THEN batch ELSE <<>>)

\* where the tagged lines of stream s stand in a text
PlacesOf(s, t) == {i \in 1..Len(t) : t[i].kind = "tagged" /\ t[i].prefix = s}

\* the tagged lines of stream s stand in the text in the order they were written
InWrittenOrder(s, t) ==
    \A i, j \in PlacesOf(s, t) : i < j => t[i].n < t[j].n

\* no tagged line of stream s stands twice in the text
NoneTwice(s, t) ==
    Cardinality({t[i].n : i \in PlacesOf(s, t)}) = Cardinality(PlacesOf(s, t))

Logged(s, n, t) == \E i \in PlacesOf(s, t) : t[i].n = n

----------------------------------------------------------------------------
(* C1 *)

\* the child has exited while the loop was running; this lasts once it holds
ExitedInLoop == ReachedRunning /\ child = "exited"

\* C1 as stated: once the child has exited, the loop of monitor_command
\* eventually stops and monitor_command returns normally.  (ExitedInLoop lasts,
\* so "from then on eventually Q" is "again and again, ExitedInLoop => Q".)
C1_ReturnsNormally == []<>(ExitedInLoop => pc = "returned")

\* C1, amended: once the child has exited, the loop eventually stops ticking:
\* monitor_command returns normally, or a collection failure in the tick in
\* progress ends the run with sys.exit(1).  Neither waits for a reader thread
\* to reach the end of its stream.
C1_LoopEnds ==
    []<>(ExitedInLoop => (pc = "returned" \/ (pc = "exited" /\ failure = "collect")))

\* the loop has returned while a reader thread still waits on a pipe held open
C1_Witness ==
    /\ pc = "returned"
    /\ child = "exited"
    /\ pipes_held
    /\ \E s \in Streams : worker[s] = "running"

----------------------------------------------------------------------------
(* C2 *)

\* C2: when monitor_command has returned, every line the child wrote is in the
\* output file and on the terminal as a tagged line.
C2_AllLinesLogged ==
    pc = "returned" =>
        \A s \in Streams : \A n \in 1..Len(written[s]) :
            Logged(s, n, file_content) /\ Logged(s, n, sys_stdout)

----------------------------------------------------------------------------
(* C3 *)

\* C3: the read_lines calls on a stream return the lines written to it, one for
\* one and in order, each with the written text less its line terminator, and
\* a call that finds the queue empty has returned every line captured so far.
C3_DrainReturnsWrittenText ==
    \A s \in Streams :
        /\ \A k \in 1..Len(Taken(s)) : Taken(s)[k] = <<ExpectedLine(s, k)>>
        /\ Len(Taken(s)) + Len(q[s]) = NPut(s)

----------------------------------------------------------------------------
(* C4 *)

\* C4: when the run has ended on a failure, its error message is on sys.stderr
\* and not on sys.stdout.
C4_ErrorOnStderr ==
    pc = "exited" =>
        /\ "error" \in Kinds(sys_stderr)
        /\ "error" \notin Kinds(sys_stdout)

----------------------------------------------------------------------------
(* C5 *)

\* C5: the exit status is 0 exactly when monitor_command returned, which it does
\* only after the child has ended and without any failure; a failed startup step
\* or a collection failure gives exit status 1.
C5_ExitStatus ==
    /\ Alive <=> exit_status = NoStatus
    /\ exit_status = 0 <=> pc = "returned"
    /\ exit_status = 1 <=> pc = "exited"
    /\ pc = "returned" => child = "exited" /\ ReachedRunning /\ failure = "none"
    /\ (\E i \in 1..Len(startup) : StartupFailed(i)) => exit_status = 1
    /\ failure = "collect" => exit_status = 1

\* a collection failure after a tick has been written
C5_Witness == exit_status = 1 /\ failure = "collect" /\ ticks >= 1

----------------------------------------------------------------------------
(* C6 *)

\* C6: a failed startup step is the last step taken: the run has ended, no later
\* step was performed (no child launched after a failed removal, no reader
\* thread started after a failed launch), and no record was written to the
\* output file or the terminal.
C6_StartupFailureStops ==
    \A i \in 1..Len(startup) :
        StartupFailed(i) =>
            /\ i = Len(startup)
            /\ pc = "exited"
            /\ startup[i].step = "remove" => child = "none"
            /\ startup[i].step \in {"remove", "popen"} =>
                   \A s \in Streams : worker[s] = "unstarted"
            /\ ticks = 0
            /\ "header" \notin Kinds(file_content) \cup Kinds(sys_stdout)

\* the removal of an existing output file failed
C6_Witness ==
    /\ Len(startup) = 1
    /\ startup[1].res = "PermissionError"
    /\ file_exists
    /\ pc = "exited"

----------------------------------------------------------------------------
(* C7 *)

\* C7: from Running on, the output file holds nothing but what this run wrote:
\* no token of the earlier content is left, and without a tick there is no file.
C7_NoStaleContent ==
    ReachedRunning =>
        /\ Kinds(file_content) \subseteq {"header", "child", "tagged", "NL"}
        /\ file_exists <=> (ticks > 0 \/ pc = "write_stdout")
        /\ ~file_exists => file_content = <<>>

\* a run over an existing output file has completed after a tick
C7_Witness ==
    /\ startup # <<>> /\ startup[1].res = "removed"
    /\ pc = "returned"
    /\ ticks >= 1

----------------------------------------------------------------------------
(* C8 *)

\* C8: no captured line is returned twice by read_lines, none is twice in the
\* log, and a read_lines call that runs while nothing was captured since the
\* earlier calls returned collects nothing.
C8_NoLineTwice ==
    \A s \in Streams :
        /\ NoneTwice(s, Concat(Taken(s)))
        /\ NoneTwice(s, file_content)
        /\ NoneTwice(s, sys_stdout)
        /\ (Reading(s) /\ NPut(s) = Len(Returned(s))) => batch = <<>>

\* a second read_lines call on a stream returned nothing after the first returned a line
C8_Witness ==
    \E s \in Streams :
        /\ Len(drains[s]) = 2
        /\ drains[s][1] # <<>>
        /\ drains[s][2] = <<>>

----------------------------------------------------------------------------
(* C9 *)

\* C9: in the output file and on the terminal, and in the lines still to be
\* written, the lines of one stream stand in the order the child wrote them.
C9_PerStreamFifo ==
    \A s \in Streams :
        /\ InWrittenOrder(s, file_content)
        /\ InWrittenOrder(s, sys_stdout)
        /\ InWrittenOrder(s, Concat(Taken(s)))

\* two lines of one stream were logged by different ticks
C9_Witness ==
    \E s \in Streams :
        /\ Len(drains[s]) = 2
        /\ drains[s][1] # <<>>
        /\ drains[s][2] # <<>>
        /\ Logged(s, 1, file_content) /\ Logged(s, 2, file_content)

----------------------------------------------------------------------------
(* C10 *)

\* the lines the claim gives the record of the tick being written
ExpectedRecord ==
    LET pt == process_tree_info[1]
        ts == ticks + 1
    IN  <<<<HeaderLine(ts, pt.pi)>>>>
        \o [i \in 1..Len(pt.children) |-> <<ChildLine(ts, pt.children[i])>>]
        \o drains["stdout"][Len(drains["stdout"])]
        \o drains["stderr"][Len(drains["stderr"])]

\* C10: the record a tick writes is the header line, the child lines in the
\* order of the snapshot, the stdout lines of the tick, the stderr lines of the
\* tick, and nothing else.
C10_RecordShape ==
    pc \in {"write_file", "write_stdout"} =>
        SplitLines(Concat(log_lines)) = ExpectedRecord

----------------------------------------------------------------------------
(* the collector and the loop around it *)

\* number of records in a text: each record starts with one header line
Records(tokens) == Cardinality({i \in 1..Len(tokens) : tokens[i].kind = "header"})

\* the tick that is under way has left no trace: ticks records are in the file
\* and on the terminal, and each reader has been drained ticks times
NothingOfThisTick ==
    /\ Records(file_content) = ticks
    /\ Records(sys_stdout) = ticks
    /\ \A s \in Streams : Len(drains[s]) = ticks

\* C11 as stated: a call of get_process_tree_info made after the child has
\* exited returns None, and monitor_command returns
C11_ExitedMeansNotFound ==
    [][(pc = "collect" /\ child = "exited" /\ pc' # "collect")
         => (process_tree_info' = <<>> /\ pc' = "returned")]_vars

\* C11: when the root lookup reports that the process no longer exists, the
\* call returns None, no record of that tick is written, and monitor_command
\* has returned with status 0: no further tick follows
C11_NotFoundFinishes ==
    probe.root = "NoSuchProcess"
        => /\ process_tree_info = <<>>
           /\ pc = "returned" /\ exit_status = 0
           /\ NothingOfThisTick

C11_Witness ==
    /\ probe.root = "NoSuchProcess"
    /\ pc = "returned"
    /\ ticks >= 1

\* C12: once the root lookup and memory read have succeeded the call returns
\* a ProcessTreeInfo for the root, never None, and the tick goes on; when the
\* process has no descendants or their enumeration fails, children is empty
C12_SnapshotOnceRootRead ==
    probe.root = "ok"
        => /\ Len(process_tree_info) = 1
           /\ process_tree_info[1].pi.pid = RootPid
           /\ process_tree_info[1].pi.mem \in MemVals
           /\ (probe.enumRes = "Exception" \/ probe.children = <<>>)
                 => process_tree_info[1].children = <<>>
           /\ pc \in {"read_stdout", "read_stderr", "write_file", "write_stdout"} \/ ticks >= 1
           /\ failure # "collect"

C12_Witness ==
    /\ probe.root = "ok"
    /\ probe.enumRes = "Exception"
    /\ child = "exited"
    /\ pc = "write_stdout"
    /\ Len(process_tree_info) = 1

\* the reads of descendant c in the last call, as the probe has them
MemoryReadOk(c) == ~(c \in probe.vanished /\ probe.at = "memory_info")
CmdlineReadOk(c) == ~(c \in probe.vanished /\ probe.at \in Reads)

Enumerated == {probe.children[i] : i \in 1..Len(probe.children)}

PlaceIn(seq, x) == CHOOSE i \in 1..Len(seq) : seq[i] = x

\* C13: an enumerated descendant is in the snapshot's children if and only if
\* its memory read and its command-line read both succeeded; it is there once,
\* with the values read, the others are left out, the snapshot is returned
\* all the same, and the children are in enumeration order
C13_ChildrenAreTheInspected ==
    (probe.root = "ok" /\ probe.enumRes = "ok")
        => /\ Len(process_tree_info) = 1
           /\ LET got == process_tree_info[1].children
              IN  /\ \A c \in Enumerated :
                        (\E i \in 1..Len(got) : got[i].pid = c)
                            <=> (MemoryReadOk(c) /\ CmdlineReadOk(c))
                  /\ \A i \in 1..Len(got) :
                        /\ got[i].pid \in Enumerated
                        /\ got[i] = ProcessInfo(got[i].pid, process_tree_info[1].pi.mem,
                                                <<"cmd", got[i].pid>>)
                  /\ \A i, j \in 1..Len(got) :
                        i < j => PlaceIn(probe.children, got[i].pid)
                                    < PlaceIn(probe.children, got[j].pid)

C13_Witness ==
    /\ probe.root = "ok"
    /\ probe.at = "cmdline"
    /\ Len(process_tree_info) = 1
    /\ Len(process_tree_info[1].children) = 2
    /\ pc = "poll"

\* C14: when the root lookup or memory read fails with anything other than
\* NoSuchProcess, the program prints the error and exits with status 1: no
\* record of that tick is written, no reader is drained in that tick, and
\* no further tick follows
C14_LookupFailureIsFatal ==
    probe.root = "Exception"
        => /\ pc = "exited" /\ exit_status = 1
           /\ NothingOfThisTick
           /\ sys_stdout # <<>> /\ sys_stdout[Len(sys_stdout) - 1].kind = "error"

C14_Witness ==
    /\ probe.root = "Exception"
    /\ pc = "exited"
    /\ ticks >= 1
    /\ \E s \in Streams : q[s] # <<>>

----------------------------------------------------------------------------
(* the output file and the terminal *)

IsPrefix(s, t) == Len(s) <= Len(t) /\ SubSeq(t, 1, Len(s)) = s

\* C15: once the startup is through, every step of the program (a step of a
\* tick, the return, an exit on failure) leaves the file in existence and
\* its content a prefix of the content after the step
C15_FileOnlyExtended ==
    [][ReachedRunning => /\ IsPrefix(file_content, file_content')
                         /\ file_exists => file_exists']_vars

C15_Witness ==
    /\ pc = "exited"
    /\ failure = "collect"
    /\ Records(file_content) >= 1
    /\ file_exists

\* between two ticks: the sleep of a tick is over and the next snapshot is
\* not yet taken, or the loop has ended
TickBoundary == pc \in {"poll", "collect", "returned"}

\* C16: at every tick boundary the lines appended to the output file by this
\* run are the lines the tick records wrote to the terminal, in the same
\* order: the two texts are equal token for token
C16_FileEqualsTerminal ==
    (ReachedRunning /\ TickBoundary) => file_content = sys_stdout

C16_Witness ==
    /\ pc = "poll"
    /\ ticks = MaxTicks
    /\ \E i \in 1..Len(file_content) : file_content[i].kind = "tagged"
    /\ \E i \in 1..Len(sys_stdout) : sys_stdout[i].kind = "child"

----------------------------------------------------------------------------
(* the order of the steps of a tick *)

\* the steps, told by what they change
Captures == pc = "collect" /\ pc' = "read_stdout"
Gets(s) == Len(q'[s]) < Len(q[s])
DrainReturns(s) == Len(drains'[s]) = Len(drains[s]) + 1
WritesFile == file_content' # file_content
WritesTerminal == sys_stdout' # sys_stdout

\* the snapshot of the tick under way has been captured
Captured ==
    /\ probe.root = "ok"
    /\ log_lines # <<>>
    /\ Head(log_lines)[1] = HeaderLine(ticks + 1, process_tree_info[1].pi)

\* the read_lines call of this tick on reader s has returned
Drained(s) == Len(drains[s]) = ticks + 1

\* C17: in a tick the snapshot is captured before a reader is drained, stdout
\* is drained before stderr, and both read_lines calls have returned before
\* anything of the tick is written, first to the file, then to the terminal;
\* a snapshot is captured only when the writes of the tick before are complete
C17_OrderWithinTick ==
    [][ReachedRunning =>
        /\ Captures => NothingOfThisTick
        /\ (Gets("stdout") \/ DrainReturns("stdout"))
              => (Captured /\ Len(drains["stdout"]) = ticks /\ Len(drains["stderr"]) = ticks)
        /\ (Gets("stderr") \/ DrainReturns("stderr"))
              => (Captured /\ Drained("stdout") /\ Len(drains["stderr"]) = ticks)
        /\ WritesFile
              => /\ Captured /\ Drained("stdout") /\ Drained("stderr")
                 /\ Records(file_content) = ticks /\ Records(sys_stdout) = ticks
                 /\ Records(file_content') = ticks + 1
        /\ (WritesTerminal /\ pc' # "exited")
              => /\ Drained("stdout") /\ Drained("stderr")
                 /\ Records(file_content) = ticks + 1
                 /\ Records(sys_stdout') = ticks + 1
                 /\ ticks' = ticks + 1
       ]_vars

C17_Witness ==
    /\ pc = "write_file"
    /\ ticks = 1
    /\ \A s \in Streams : Drained(s) /\ drains[s][ticks + 1] # <<>>

----------------------------------------------------------------------------
(* read_lines *)

----------------------------------------------------------------------------
(* a reader thread that stops *)

Stopped(s) == worker[s] \in {"eof", "error"}

IsSuffix(s, t) == Len(s) <= Len(t) /\ SubSeq(t, Len(t) - Len(s) + 1, Len(t)) = s

\* the loop is held up by nothing but the bound on the ticks of the model
AtTickBound == pc = "poll" /\ LoopCondition /\ ticks >= MaxTicks

\* C19: a read error or end of input on a stream does not end the run: the
\* step that stops the thread leaves the main thread, the queues, the other
\* thread and the output alone; a stopped thread stays stopped, reads and
\* puts nothing more; read_lines on its reader goes on handing out the lines
\* that are in the queue and then returns empty lists, without raising; and
\* the main thread always has its next step
C19_ReaderStopIsLocal ==
    /\ [][\A s \in Streams :
            /\ (worker[s] = "running" /\ worker'[s] # "running")
                  => /\ Stopped(s)'
                     /\ \A o \in Streams \ {s} : worker'[o] = worker[o]
                     /\ UNCHANGED <<pc, exit_status, failure, q, pipe, batch, log_lines,
                                    drains, ticks, file_content, sys_stdout>>
            /\ Stopped(s)
                  => /\ worker'[s] = worker[s]
                     /\ Len(written'[s]) - Len(pipe'[s]) = NPut(s)
                     /\ IsSuffix(q'[s], q[s])
            /\ (Stopped(s) /\ Gets(s))
                  => batch' = Append(batch, <<TaggedLine(s, Head(q[s]))>>)
            /\ (Stopped(s) /\ DrainReturns(s))
                  => /\ q[s] = <<>>
                     /\ drains'[s][Len(drains'[s])] = batch
                     /\ pc' \notin {"exited", "returned"}
        ]_vars
    /\ []((Alive /\ ReachedRunning /\ ~AtTickBound) => ENABLED MainStep)

\* the thread of stdout died of a read error after putting one line and with
\* another left in the pipe: read_lines handed out the one and then returned
\* an empty list, and stderr was drained in both ticks
C19_Witness ==
    /\ worker["stdout"] = "error"
    /\ pipe["stdout"] # <<>>
    /\ Len(drains["stdout"]) = 2
    /\ Len(drains["stderr"]) = 2
    /\ drains["stdout"][1] # <<>>
    /\ drains["stdout"][2] = <<>>
    /\ pc = "poll"

====
